---- MODULE Spec2Model ----
(***************************************************************************)
(* Audio turn-taking and playback scheduling of the voice client.          *)
(*                                                                         *)
(* Two variants of the useLiveAPI hook are modelled:                       *)
(*   - the queue-based hook of src/App.tsx (lines 228-529): a queue of     *)
(*     decoded buffers, one current source, the isPlayingRef gate;         *)
(*   - the mute-gated hook of src/hooks/useLiveAPI.ts (lines 1-373): a set *)
(*     of scheduled sources, the microphone track's enabled flag, the      *)
(*     ignoringNextTurnRef suppression flag.                               *)
(* JavaScript runs each callback to completion, so one action is one       *)
(* callback, or the part of an async function between two awaits.          *)
(* decodeAudioData (../utils/audio-utils) is awaited by both hooks: its    *)
(* await is a suspension that other callbacks can overtake, and pending    *)
(* decodes resolve or reject in any order. setState calls take effect in   *)
(* the callback that makes them. The mute-gated hook is modelled without   *)
(* its output clock: its sources may end in any order. The remote session  *)
(* owes one reply per input it was sent, in the order of the inputs.       *)
(* Time is counted in units of 50 ms.                                      *)
(***************************************************************************)
EXTENDS Integers, Sequences, FiniteSets, TLC

\* Bounds of the model.
MaxChunks == 2          \* audio chunks received over a run
MaxTime == 5            \* last instant the output clock reaches
MaxReplies == 2         \* replies the session owes at one time
FrameLen == 2           \* samples in a capture frame

\* Program constants.
Slack == 1              \* 0.05 s: "currentTime + 0.05"
Durations == {4, 6}     \* buffer.duration of a decoded chunk: 200 ms, 300 ms

ChunkIds == 1..MaxChunks

\* Resolution of the samples and of the volume: a sample s stands for
\* s / SampleScale, in [-1, 1]
SampleScale == 4
VolScale == 10
Gain == 5               \* "rms * 5"

(***************************************************************************)
(* State of the queue-based hook.                                          *)
(***************************************************************************)
VARIABLES
    qConnectionState,   \* connectionState
    turnState,          \* turnState
    qErrorMessage,      \* errorMessage: "null" or the message
    audioContextsRef,   \* audioContextsRef.current # null
    qStreamRef,         \* streamRef.current # null
    qProcessorRef,      \* processorRef.current # null (processor connected)
    handlerSet,         \* the connected processor has its onaudioprocess handler
    sessionRef,         \* sessionRef.current # null
    audioQueueRef,      \* audioQueueRef.current: chunk ids, head first
    isPlayingRef,       \* isPlayingRef.current
    currentSourceRef,   \* currentSourceRef.current: chunk id of the source, 0 = null
    qNextStartTimeRef,  \* nextStartTimeRef.current
    isInterruptedRef,   \* isInterruptedRef.current
    connPc,             \* where connect() is suspended: idle, mic, session, resolved
    ws,                 \* the remote session's socket: none, connecting, open, closing
    qNow,               \* outputCtx.currentTime
    chunk,              \* per chunk: st (life cycle), dur (buffer.duration),
                        \*   old (interrupt() was called after it was received),
                        \*   late (a chunk received after it was started before it)
    lastStart,          \* the source playing: chunk id, source.start's argument at,
                        \*   buffer duration d, and currentTime (clk), nextStartTimeRef
                        \*   (nst) and the end of the segment before (pe) at the call
    \* history variables, read by the properties only
    prevEnd,            \* end of the last segment started since the last interrupt()
    tcSeen,             \* a turnComplete has been received
    qLast               \* what the last step was: "sent" (a capture frame was
                        \*   transmitted), "held" (a capture frame was not
                        \*   transmitted), "intr" (interrupt() while AI_SPEAKING),
                        \*   "intrq" (the same, the queue holding segments),
                        \*   "drained" (the ended callback found the queue empty
                        \*   and left AI_SPEAKING), "rintr" (a message with
                        \*   interrupted was received while AI_SPEAKING), "fail"
                        \*   (onerror, onclose of an open session, or the catch
                        \*   block of connect() ran), "dropped" (the decode of a
                        \*   chunk failed), "discarded" (an audio chunk was
                        \*   received with isInterruptedRef set), "stale" (the
                        \*   ended callback of a source that is not the current
                        \*   source ran), or "-"

qvars == <<qConnectionState, turnState, qErrorMessage, audioContextsRef, qStreamRef,
           qProcessorRef, handlerSet, sessionRef, audioQueueRef, isPlayingRef,
           currentSourceRef, qNextStartTimeRef, isInterruptedRef, connPc, ws, qNow,
           chunk, lastStart, prevEnd, tcSeen, qLast>>

(***************************************************************************)
(* State of the mute-gated hook. Its scheduling instants (nextStartTimeRef *)
(* and currentTime) decide when a started source is heard, not whether it  *)
(* is started nor when the microphone opens; late decodes let sources end  *)
(* in any order, so the output clock is left out and a started source may  *)
(* end at any later step.                                                  *)
(***************************************************************************)
VARIABLES
    mConnectionState,       \* connectionState
    mErrorMessage,          \* errorMessage: "null" or "set"
    isMuted,                \* isMuted
    isPlaying,              \* isPlaying
    inputAudioContextRef,   \* inputAudioContextRef.current # null
    outputAudioContextRef,  \* outputAudioContextRef.current # null
    outputNodeRef,          \* outputNodeRef.current # null
    mStreamRef,             \* streamRef.current # null
    trackEnabled,           \* streamRef.current.getAudioTracks()[0].enabled
    sessionPromiseRef,      \* sessionPromiseRef.current # null
    capturing,              \* the script processor of onopen delivers frames
    activeSourcesRef,       \* activeSourcesRef.current: chunk ids of the sources
    processingModelTurnRef, \* processingModelTurnRef.current
    ignoringNextTurnRef,    \* ignoringNextTurnRef.current
    mPc,                    \* where connect() is suspended: idle, mic
    mws,                    \* the remote session's socket: none, connecting, open, closing
    replies,                \* the session's replies not yet complete, the one in
                            \*   progress first: "normal" or "ack" (to an instruction)
    mchunk,                 \* per chunk: st (life cycle), the fields intr and tc of
                            \*   its message, kind (whose content it is), old (playback
                            \*   was stopped after it was received)
    mLast                   \* what the last step surfaced (a transcript callback, a
                            \*   source started) and discarded for the suppression
                            \*   flag, by whose content it was; mic: the path on which
                            \*   it turned the track from disabled to enabled ("held":
                            \*   the last source ended and the track stays disabled),
                            \*   or "manual": toggleMute() disabled the track; fin: it
                            \*   ended the handler of a message carrying interrupted
                            \*   ("interrupted": by return, "rejected": by a failed
                            \*   decode), or it was onclose of an open session
                            \*   ("closed"), or it was connect() going on after a
                            \*   disconnect() made while it awaited the microphone
                            \*   ("resumed"), or it was cleanup() called in a state
                            \*   that cleanup() leaves ("again"); frame: it sent a media
                            \*   frame to the session; cb: it invoked
                            \*   onTranscriptionUpdate

mvars == <<mConnectionState, mErrorMessage, isMuted, isPlaying, inputAudioContextRef,
           outputAudioContextRef, outputNodeRef, mStreamRef, trackEnabled,
           sessionPromiseRef, capturing, activeSourcesRef, processingModelTurnRef,
           ignoringNextTurnRef, mPc, mws, replies, mchunk, mLast>>

(***************************************************************************)
(* The volume state of the two hooks, written by the capture callback and  *)
(* by the teardown and read by nothing in the hooks. It is followed under  *)
(* SpecV, with the connection life cycle of each hook; SpecQ and SpecM     *)
(* leave it out. A volume v stands for v / VolScale.                       *)
(***************************************************************************)
VARIABLES
    qVolume,    \* volume of the queue-based hook
    mVolume     \* volume of the mute-gated hook

vvars == <<qVolume, mVolume>>

(***************************************************************************)
(* The speaking-pace state of the queue-based hook, written by             *)
(* changeSpeed() and by the capture callback. It is followed under SpecS,  *)
(* with every step of the queue-based hook; the other specifications       *)
(* leave it out.                                                           *)
(***************************************************************************)
VARIABLES
    currentSpeedModeRef,    \* currentSpeedModeRef.current
    pendingSpeedUpdateRef,  \* pendingSpeedUpdateRef.current
    \* history variable, read by the properties only
    sLast                   \* the pace instruction the last step sent, "marked"
                            \*   when it was changeSpeed() leaving the update
                            \*   pending, or "-"

svars == <<currentSpeedModeRef, pendingSpeedUpdateRef, sLast>>

vars == <<qvars, mvars, vvars, svars>>

NoMChunk == [st |-> "none", intr |-> FALSE, tc |-> FALSE, kind |-> "-", old |-> FALSE]
MGone(st) == [NoMChunk EXCEPT !.st = st]
Quiet == [sur |-> {}, dis |-> {}, mic |-> "-", fin |-> "-", frame |-> FALSE,
          cb |-> FALSE]

MInit ==
    /\ mConnectionState = "DISCONNECTED"
    /\ mErrorMessage = "null"
    /\ isMuted = FALSE
    /\ isPlaying = FALSE
    /\ inputAudioContextRef = FALSE
    /\ outputAudioContextRef = FALSE
    /\ outputNodeRef = FALSE
    /\ mStreamRef = FALSE
    /\ trackEnabled = TRUE
    /\ sessionPromiseRef = FALSE
    /\ capturing = FALSE
    /\ activeSourcesRef = {}
    /\ processingModelTurnRef = FALSE
    /\ ignoringNextTurnRef = FALSE
    /\ mPc = "idle"
    /\ mws = "none"
    /\ replies = <<>>
    /\ mchunk = [i \in ChunkIds |-> NoMChunk]
    /\ mLast = Quiet

NoChunk == [st |-> "none", dur |-> 0, old |-> FALSE, late |-> FALSE]
\* a chunk that is out of the hook's hands keeps its life cycle state alone
Gone(st) == [NoChunk EXCEPT !.st = st]
NoStart == [id |-> 0, at |-> 0, d |-> 0, clk |-> 0, nst |-> 0, pe |-> -1]

VInit ==
    /\ qVolume = 0
    /\ mVolume = 0

SInit ==
    /\ currentSpeedModeRef = "normal"
    /\ pendingSpeedUpdateRef = FALSE
    /\ sLast = "-"

QInit ==
    /\ qConnectionState = "DISCONNECTED"
    /\ turnState = "USER_SPEAKING"
    /\ qErrorMessage = "null"
    /\ audioContextsRef = FALSE
    /\ qStreamRef = FALSE
    /\ qProcessorRef = FALSE
    /\ handlerSet = FALSE
    /\ sessionRef = FALSE
    /\ audioQueueRef = <<>>
    /\ isPlayingRef = FALSE
    /\ currentSourceRef = 0
    /\ qNextStartTimeRef = 0
    /\ isInterruptedRef = FALSE
    /\ connPc = "idle"
    /\ ws = "none"
    /\ qNow = 0
    /\ chunk = [i \in ChunkIds |-> NoChunk]
    /\ lastStart = NoStart
    /\ prevEnd = -1
    /\ tcSeen = FALSE
    /\ qLast = "-"

\* chunks received so far
nRecv == Cardinality({i \in ChunkIds : chunk[i].st # "none"})

(***************************************************************************)
(* playNextInQueue, called with the queue and the chunk table as the       *)
(* caller leaves them.                                                     *)
(***************************************************************************)
StartTimeNoSlack(nextStart, currentTime) ==
    IF nextStart < currentTime THEN currentTime ELSE nextStart

StartTimeNoClamp(nextStart, currentTime) == nextStart

StartTimeWideSlack(nextStart, currentTime) ==
    IF nextStart < currentTime THEN currentTime + 2 * Slack ELSE nextStart

StartTimeLe(nextStart, currentTime) ==
    IF nextStart <= currentTime THEN currentTime + Slack ELSE nextStart

StartTime(nextStart, currentTime) ==
    IF nextStart < currentTime THEN currentTime + Slack ELSE nextStart

\* the record of the playing source is dropped once that source plays no more
KeepStart(ch) ==
    IF lastStart.id # 0 /\ ch[lastStart.id].st = "playing" THEN lastStart ELSE NoStart

playNextInQueue(q, ch) ==
    IF ~audioContextsRef \/ isInterruptedRef
    THEN /\ audioQueueRef' = q
         /\ chunk' = ch
         /\ lastStart' = KeepStart(ch)
         /\ UNCHANGED <<isPlayingRef, turnState, qNextStartTimeRef, currentSourceRef,
                        prevEnd>>
    ELSE IF Len(q) = 0
    THEN /\ isPlayingRef' = FALSE
         /\ turnState' = "USER_SPEAKING"
         /\ audioQueueRef' = q
         /\ chunk' = ch
         /\ lastStart' = KeepStart(ch)
         /\ UNCHANGED <<qNextStartTimeRef, currentSourceRef, prevEnd>>
    ELSE LET b == Head(q)
             t == StartTime(qNextStartTimeRef, qNow)
         IN /\ isPlayingRef' = TRUE
            /\ turnState' = "AI_SPEAKING"
            /\ audioQueueRef' = Tail(q)
            /\ chunk' = [i \in ChunkIds |->
                   IF i = b THEN [ch[b] EXCEPT !.st = "playing", !.dur = 0]
                   ELSE IF i < b /\ ch[i].st \in {"decoding", "queued"}
                   THEN [ch[i] EXCEPT !.late = TRUE]
                   ELSE ch[i]]
            /\ qNextStartTimeRef' = t + ch[b].dur
            /\ currentSourceRef' = b
            /\ lastStart' = [id |-> b, at |-> t, d |-> ch[b].dur, clk |-> qNow,
                             nst |-> qNextStartTimeRef, pe |-> prevEnd]
            /\ prevEnd' = t + ch[b].dur

(***************************************************************************)
(* queueAudio: the part before the await is in OnMessage, the part after   *)
(* it is DecodeDone (the decode resolved, to a buffer of duration d) or    *)
(* DecodeFail (it threw).                                                  *)
(***************************************************************************)
DecodeDone(id, d) ==
    /\ chunk[id].st = "decoding"
    /\ LET q2 == Append(audioQueueRef, id)
           ch2 == [chunk EXCEPT ![id].st = "queued", ![id].dur = d]
       IN IF ~isPlayingRef
          THEN playNextInQueue(q2, ch2)
          ELSE /\ audioQueueRef' = q2
               /\ chunk' = ch2
               /\ UNCHANGED <<isPlayingRef, turnState, qNextStartTimeRef,
                              currentSourceRef, lastStart, prevEnd>>
    /\ qLast' = "-"
    /\ UNCHANGED <<qConnectionState, qErrorMessage, audioContextsRef, qStreamRef,
                   qProcessorRef, handlerSet, sessionRef, isInterruptedRef, connPc, ws,
                   qNow, tcSeen>>

\* a failed decode that leaves the gate closed
DecodeFailBlocks(id) ==
    /\ chunk[id].st = "decoding"
    /\ chunk' = [chunk EXCEPT ![id] = Gone("gone")]
    /\ qLast' = "dropped"
    /\ isPlayingRef' = TRUE
    /\ UNCHANGED <<qConnectionState, turnState, qErrorMessage, audioContextsRef,
                   qStreamRef, qProcessorRef, handlerSet, sessionRef, audioQueueRef,
                   currentSourceRef, qNextStartTimeRef, isInterruptedRef,
                   connPc, ws, qNow, lastStart, prevEnd, tcSeen>>

DecodeFail(id) ==
    /\ chunk[id].st = "decoding"
    /\ chunk' = [chunk EXCEPT ![id] = Gone("gone")]
    /\ qLast' = "dropped"
    /\ UNCHANGED <<qConnectionState, turnState, qErrorMessage, audioContextsRef,
                   qStreamRef, qProcessorRef, handlerSet, sessionRef, audioQueueRef,
                   isPlayingRef, currentSourceRef, qNextStartTimeRef, isInterruptedRef,
                   connPc, ws, qNow, lastStart, prevEnd, tcSeen>>

(***************************************************************************)
(* source.onended. The output device raises it when the source has played  *)
(* to its end, after stop(), and possibly after its context was closed.    *)
\* source.onended without its test of currentSourceRef
SourceEndedAnySource(id) ==
    /\ \/ chunk[id].st = "playing" /\ lastStart.id = id
                                   /\ qNow >= lastStart.at + lastStart.d
       \/ chunk[id].st \in {"stopped", "orphan"}
    /\ LET ch2 == [chunk EXCEPT ![id] = Gone("gone")]
       IN playNextInQueue(audioQueueRef, ch2)
    /\ qLast' = IF turnState = "AI_SPEAKING" /\ turnState' = "USER_SPEAKING"
                THEN "drained"
                ELSE IF currentSourceRef # id THEN "stale" ELSE "-"
    /\ UNCHANGED <<qConnectionState, qErrorMessage, audioContextsRef, qStreamRef,
                   qProcessorRef, handlerSet, sessionRef, isInterruptedRef, connPc, ws,
                   qNow, tcSeen>>


(***************************************************************************)
SourceEnded(id) ==
    /\ \/ chunk[id].st = "playing" /\ lastStart.id = id
                                   /\ qNow >= lastStart.at + lastStart.d
       \/ chunk[id].st \in {"stopped", "orphan"}
    /\ LET ch2 == [chunk EXCEPT ![id] = Gone("gone")]
       IN IF currentSourceRef = id
          THEN playNextInQueue(audioQueueRef, ch2)
          ELSE /\ chunk' = ch2
               /\ lastStart' = KeepStart(ch2)
               /\ UNCHANGED <<audioQueueRef, isPlayingRef, turnState, qNextStartTimeRef,
                              currentSourceRef, prevEnd>>
    /\ qLast' = IF turnState = "AI_SPEAKING" /\ turnState' = "USER_SPEAKING"
                THEN "drained"
                ELSE IF currentSourceRef # id THEN "stale" ELSE "-"
    /\ UNCHANGED <<qConnectionState, qErrorMessage, audioContextsRef, qStreamRef,
                   qProcessorRef, handlerSet, sessionRef, isInterruptedRef, connPc, ws,
                   qNow, tcSeen>>

(***************************************************************************)
(* interrupt(): chunks still being decoded are marked old, the history     *)
(* the properties read.                                                    *)
(***************************************************************************)
interruptKeepQueue ==
    /\ isInterruptedRef' = TRUE
    /\ currentSourceRef' = 0
    /\ chunk' = [i \in ChunkIds |->
                   IF i = currentSourceRef /\ chunk[i].st = "playing"
                   THEN Gone("stopped")
                   ELSE IF chunk[i].st = "decoding"
                   THEN [chunk[i] EXCEPT !.old = TRUE]
                   ELSE chunk[i]]
    /\ lastStart' = IF lastStart.id = currentSourceRef THEN NoStart ELSE lastStart
    /\ isPlayingRef' = FALSE
    /\ qNextStartTimeRef' = 0
    /\ turnState' = "USER_SPEAKING"
    /\ UNCHANGED audioQueueRef

interrupt ==
    /\ isInterruptedRef' = TRUE
    /\ currentSourceRef' = 0
    /\ chunk' = [i \in ChunkIds |->
                   IF i = currentSourceRef /\ chunk[i].st = "playing"
                   THEN Gone("stopped")
                   ELSE IF chunk[i].st = "queued"
                   THEN Gone("gone")
                   ELSE IF chunk[i].st = "decoding"
                   THEN [chunk[i] EXCEPT !.old = TRUE]
                   ELSE chunk[i]]
    /\ lastStart' = IF lastStart.id = currentSourceRef THEN NoStart ELSE lastStart
    /\ audioQueueRef' = <<>>
    /\ isPlayingRef' = FALSE
    /\ qNextStartTimeRef' = 0
    /\ turnState' = "USER_SPEAKING"

Interrupt ==
    /\ interrupt
    /\ prevEnd' = -1
    /\ qLast' = IF turnState # "AI_SPEAKING" THEN "-"
                ELSE IF audioQueueRef = <<>> THEN "intr" ELSE "intrq"
    /\ UNCHANGED <<qConnectionState, qErrorMessage, audioContextsRef, qStreamRef,
                   qProcessorRef, handlerSet, sessionRef, connPc, ws, qNow,
                   tcSeen>>

(***************************************************************************)
(* onmessage. a: the message carries an audio chunk, it: an input          *)
(* transcription, tc: turnComplete, intr: interrupted (a field the handler *)
(* does not read). The output transcription is handed to                   *)
(* onTranscriptionUpdate and changes nothing of the hook.                  *)
(***************************************************************************)
\* onmessage whose queueAudio does not test isInterruptedRef
OnMessageNoWindow(a, it, tc, intr) ==
    /\ ws = "open"
    /\ a \/ it \/ tc \/ intr
    /\ a => nRecv < MaxChunks
    /\ chunk' = IF ~a THEN chunk
                ELSE [chunk EXCEPT ![nRecv + 1] =
                        IF ~audioContextsRef
                        THEN Gone("gone")
                        ELSE [st |-> "decoding", dur |-> 0, old |-> FALSE,
                              late |-> FALSE]]
    /\ isInterruptedRef' = IF it THEN FALSE ELSE isInterruptedRef
    /\ tcSeen' = (tc \/ tcSeen)
    /\ qLast' = IF intr /\ turnState = "AI_SPEAKING" THEN "rintr"
                ELSE IF a /\ isInterruptedRef THEN "discarded" ELSE "-"
    /\ UNCHANGED <<qConnectionState, turnState, qErrorMessage, audioContextsRef,
                   qStreamRef, qProcessorRef, handlerSet, sessionRef, audioQueueRef,
                   isPlayingRef, currentSourceRef, qNextStartTimeRef, connPc, ws, qNow,
                   lastStart, prevEnd>>

OnMessage(a, it, tc, intr) ==
    /\ ws = "open"
    /\ a \/ it \/ tc \/ intr
    /\ a => nRecv < MaxChunks
    /\ chunk' = IF ~a THEN chunk
                ELSE [chunk EXCEPT ![nRecv + 1] =
                        IF isInterruptedRef \/ ~audioContextsRef
                        THEN Gone("gone")
                        ELSE [st |-> "decoding", dur |-> 0, old |-> FALSE,
                              late |-> FALSE]]
    /\ isInterruptedRef' = IF it THEN FALSE ELSE isInterruptedRef
    /\ tcSeen' = (tc \/ tcSeen)
    /\ qLast' = IF intr /\ turnState = "AI_SPEAKING" THEN "rintr"
                ELSE IF a /\ isInterruptedRef THEN "discarded" ELSE "-"
    /\ UNCHANGED <<qConnectionState, turnState, qErrorMessage, audioContextsRef,
                   qStreamRef, qProcessorRef, handlerSet, sessionRef, audioQueueRef,
                   isPlayingRef, currentSourceRef, qNextStartTimeRef, connPc, ws, qNow,
                   lastStart, prevEnd>>

(***************************************************************************)
(* processor.onaudioprocess: the frame is sent unless the gate is closed.  *)
(***************************************************************************)
CaptureFrameNoGate ==
    /\ qProcessorRef /\ handlerSet
    /\ qLast' = "sent"
    /\ UNCHANGED <<qConnectionState, turnState, qErrorMessage, audioContextsRef,
                   qStreamRef, qProcessorRef, handlerSet, sessionRef, audioQueueRef,
                   isPlayingRef, currentSourceRef, qNextStartTimeRef, isInterruptedRef,
                   connPc, ws, qNow, chunk, lastStart, prevEnd, tcSeen>>

CaptureFrame ==
    /\ qProcessorRef /\ handlerSet
    /\ qLast' = IF ~isPlayingRef THEN "sent" ELSE "held"
    /\ UNCHANGED <<qConnectionState, turnState, qErrorMessage, audioContextsRef,
                   qStreamRef, qProcessorRef, handlerSet, sessionRef, audioQueueRef,
                   isPlayingRef, currentSourceRef, qNextStartTimeRef, isInterruptedRef,
                   connPc, ws, qNow, chunk, lastStart, prevEnd, tcSeen>>

(***************************************************************************)
(* disconnect(). cs is the connection state the caller is left with        *)
(* (connect() sets CONNECTING right after its own call of disconnect()),   *)
(* sock the state of the socket when it is called. Closing the output      *)
(* context silences the source that was playing.                           *)
(***************************************************************************)
disconnect(cs, sock) ==
    /\ qProcessorRef' = FALSE
    /\ audioContextsRef' = FALSE
    /\ sessionRef' = FALSE
    /\ ws' = IF sessionRef /\ sock = "open" THEN "closing" ELSE sock
    /\ qConnectionState' = cs
    /\ turnState' = "USER_SPEAKING"
    /\ qErrorMessage' = "null"
    /\ chunk' = [i \in ChunkIds |->
                   IF audioContextsRef /\ chunk[i].st = "playing"
                   THEN Gone("orphan")
                   ELSE chunk[i]]
    /\ lastStart' = IF audioContextsRef THEN NoStart ELSE lastStart
    /\ handlerSet' = FALSE
    /\ UNCHANGED <<qStreamRef, audioQueueRef, isPlayingRef, currentSourceRef,
                   qNextStartTimeRef, isInterruptedRef, qNow, prevEnd, tcSeen>>

Disconnect ==
    /\ disconnect("DISCONNECTED", ws)
    /\ qLast' = "-"
    /\ UNCHANGED connPc

\* onclose: the socket is gone when the callback runs
OnClose ==
    /\ ws \in {"open", "closing"}
    /\ disconnect("DISCONNECTED", "none")
    /\ qLast' = IF ws = "open" THEN "fail" ELSE "-"
    /\ UNCHANGED connPc

\* onerror: setErrorMessage("Connection Error"), then disconnect() resets it
OnError ==
    /\ ws = "open"
    /\ disconnect("DISCONNECTED", ws)
    /\ qLast' = "fail"
    /\ UNCHANGED connPc

(***************************************************************************)
(* connect(), one action per stretch between awaits.                       *)
(***************************************************************************)
ConnectStart ==
    /\ connPc = "idle"
    /\ disconnect("CONNECTING", ws)
    /\ qLast' = "-"
    /\ connPc' = "mic"

\* getUserMedia resolved: stream, contexts, processor, ai.live.connect
ConnectMicOk ==
    /\ connPc = "mic"
    /\ qStreamRef' = TRUE
    /\ audioContextsRef' = TRUE
    /\ qNow' = 0
    /\ qProcessorRef' = TRUE
    /\ handlerSet' = FALSE
    /\ ws' = "connecting"
    /\ connPc' = "session"
    /\ qLast' = "-"
    /\ UNCHANGED <<qConnectionState, turnState, qErrorMessage, sessionRef,
                   audioQueueRef, isPlayingRef, currentSourceRef, qNextStartTimeRef,
                   isInterruptedRef, chunk, lastStart, prevEnd, tcSeen>>

\* getUserMedia or ai.live.connect rejected: the catch block sets errorMessage,
\* then disconnect() resets it
ConnectFail ==
    /\ connPc \in {"mic", "session"}
    /\ disconnect("DISCONNECTED", IF ws = "connecting" THEN "none" ELSE ws)
    /\ qLast' = "fail"
    /\ connPc' = "idle"

OnOpen ==
    /\ connPc = "session"
    /\ ws = "connecting"
    /\ ws' = "open"
    /\ connPc' = "resolved"
    /\ qConnectionState' = "CONNECTED"
    /\ turnState' = "USER_SPEAKING"
    /\ qLast' = "-"
    /\ UNCHANGED <<qErrorMessage, audioContextsRef, qStreamRef, qProcessorRef,
                   handlerSet, sessionRef, audioQueueRef, isPlayingRef,
                   currentSourceRef, qNextStartTimeRef, isInterruptedRef, qNow, chunk,
                   lastStart, prevEnd, tcSeen>>

\* await sessionPromise resolved: sessionRef, processor.onaudioprocess (on the
\* processor this connect() created, which a disconnect() may have dropped since)
ConnectSessionOk ==
    /\ connPc = "resolved"
    /\ sessionRef' = TRUE
    /\ handlerSet' = qProcessorRef
    /\ connPc' = "idle"
    /\ qLast' = "-"
    /\ UNCHANGED <<qConnectionState, turnState, qErrorMessage, audioContextsRef,
                   qStreamRef, qProcessorRef, audioQueueRef, isPlayingRef,
                   currentSourceRef, qNextStartTimeRef, isInterruptedRef, ws, qNow,
                   chunk, lastStart, prevEnd, tcSeen>>

\* The output clock advances while the context exists.
Tick ==
    /\ audioContextsRef
    /\ qNow < MaxTime
    /\ qNow' = qNow + 1
    /\ qLast' = "-"
    /\ UNCHANGED <<qConnectionState, turnState, qErrorMessage, audioContextsRef,
                   qStreamRef, qProcessorRef, handlerSet, sessionRef, audioQueueRef,
                   isPlayingRef, currentSourceRef, qNextStartTimeRef, isInterruptedRef,
                   connPc, ws, chunk, lastStart, prevEnd, tcSeen>>

QNext ==
    \/ /\ \E id \in ChunkIds, d \in Durations : DecodeDone(id, d)
       /\ UNCHANGED <<mvars, vvars, svars>>
    \/ /\ \E id \in ChunkIds : DecodeFail(id)
       /\ UNCHANGED <<mvars, vvars, svars>>
    \/ /\ \E id \in ChunkIds : SourceEnded(id)
       /\ UNCHANGED <<mvars, vvars, svars>>
    \/ /\ Interrupt
       /\ UNCHANGED <<mvars, vvars, svars>>
    \/ /\ \E a, it, tc, intr \in BOOLEAN : OnMessage(a, it, tc, intr)
       /\ UNCHANGED <<mvars, vvars, svars>>
    \/ /\ CaptureFrame
       /\ UNCHANGED <<mvars, vvars, svars>>
    \/ /\ Disconnect
       /\ UNCHANGED <<mvars, vvars, svars>>
    \/ /\ ConnectStart
       /\ UNCHANGED <<mvars, vvars, svars>>
    \/ /\ ConnectMicOk
       /\ UNCHANGED <<mvars, vvars, svars>>
    \/ /\ ConnectFail
       /\ UNCHANGED <<mvars, vvars, svars>>
    \/ /\ OnOpen
       /\ UNCHANGED <<mvars, vvars, svars>>
    \/ /\ ConnectSessionOk
       /\ UNCHANGED <<mvars, vvars, svars>>
    \/ /\ OnClose
       /\ UNCHANGED <<mvars, vvars, svars>>
    \/ /\ OnError
       /\ UNCHANGED <<mvars, vvars, svars>>
    \/ /\ Tick
       /\ UNCHANGED <<mvars, vvars, svars>>

Init == QInit /\ MInit /\ VInit /\ SInit

SpecQ == Init /\ [][QNext]_vars

(***************************************************************************)
(* The mute-gated hook. Helpers give the values that setMediaMute,         *)
(* stopAudioPlayback and cleanup leave; a handler that calls several of    *)
(* them composes the values.                                               *)
(***************************************************************************)
\* isMuted as the onmessage closure sees it: connect is memoised without isMuted
\* among its dependencies, so the closure keeps the value of the first render
CapturedIsMuted == FALSE

\* setMediaMute(shouldMute): the enabled flag of the track, given the flag before
TrackAfterMute(enabled, shouldMute) ==
    IF mStreamRef THEN ~shouldMute ELSE enabled

MutedAfterMute(muted, shouldMute) ==
    IF mStreamRef THEN shouldMute ELSE muted

\* stopAudioPlayback(): every source is stopped (its ended event is still to come)
\* and the set is cleared; chunks being decoded are marked old, the history
StoppedChunks(ch) ==
    [i \in ChunkIds |->
        IF i \in activeSourcesRef THEN MGone("stopped")
        ELSE IF ch[i].st = "decoding" THEN [ch[i] EXCEPT !.old = TRUE]
        ELSE ch[i]]

\* what the session goes on to after a message: turnComplete ends the reply
RepliesAfter(tc) == IF tc /\ replies # <<>> THEN Tail(replies) ELSE replies

\* whose content a message of the reply in progress carries: a normal reply's,
\* the acknowledgment of an instruction, or new content in the reply to one
Tag(g) ==
    IF replies = <<>> THEN "-"
    ELSE IF Head(replies) = "normal" THEN "normal"
    ELSE IF g THEN "ackContent" ELSE "ack"

\* the transcription branch without its test of ignoringNextTurnRef
DispatchedAlways(ignoring, heard) == heard

\* the transcription branch: what is passed to onTranscriptionUpdate, ignoring
\* being the flag after the turnComplete branch
Dispatched(ignoring, heard) == IF ignoring THEN {} ELSE heard

(***************************************************************************)
(* onmessage up to the decode await (or to its end when nothing is         *)
(* decoded). tc, ot, it, a, intr: the message carries turnComplete, an     *)
(* output transcription, an input transcription, an audio chunk,           *)
(* interrupted; g: its content is new content.                             *)
(***************************************************************************)
MOnMessage(tc, ot, it, a, intr, g) ==
    /\ mws = "open"
    /\ tc \/ ot \/ it \/ a \/ intr
    /\ (tc \/ ot \/ a) => replies # <<>>
    /\ g => ((ot \/ a) /\ replies # <<>> /\ Head(replies) = "ack")
    /\ a => \E i \in ChunkIds : mchunk[i].st = "none"
    /\ LET id == CHOOSE i \in ChunkIds :
                    mchunk[i].st = "none" /\ \A j \in 1..(i - 1) : mchunk[j].st # "none"
           ignoring == ignoringNextTurnRef /\ ~tc
           heard == IF ot THEN {Tag(g)} ELSE IF it THEN {"user"} ELSE {}
           dropAudio == a /\ ignoring
           decode == a /\ ~ignoring /\ outputAudioContextRef /\ outputNodeRef
           \* the statements after the audio branch run now unless the handler
           \* returned (audio dropped) or is suspended at the decode
           tail == ~dropAudio /\ ~decode
           stop == tail /\ intr
           tr1 == IF decode /\ ~CapturedIsMuted
                  THEN TrackAfterMute(trackEnabled, TRUE) ELSE trackEnabled
           mu1 == IF decode /\ ~CapturedIsMuted
                  THEN MutedAfterMute(isMuted, TRUE) ELSE isMuted
           tr2 == IF stop THEN TrackAfterMute(tr1, FALSE) ELSE tr1
           mu2 == IF stop THEN MutedAfterMute(mu1, FALSE) ELSE mu1
           act2 == IF stop THEN {} ELSE activeSourcesRef
           open == tail /\ tc /\ act2 = {}
       IN /\ ignoringNextTurnRef' = ignoring
          /\ mLast' = [sur |-> Dispatched(ignoring, heard),
                       cb |-> Dispatched(ignoring, heard) # {},
                       dis |-> IF ignoring
                               THEN heard \cup (IF a THEN {Tag(g)} ELSE {})
                               ELSE {},
                       mic |-> IF ~mStreamRef \/ trackEnabled THEN "-"
                               ELSE IF stop THEN "interrupted"
                               ELSE IF open THEN "turnComplete" ELSE "-",
                       fin |-> IF intr /\ ~decode THEN "interrupted" ELSE "-",
                       frame |-> FALSE]
          /\ processingModelTurnRef' =
                IF stop THEN FALSE
                ELSE IF decode THEN TRUE
                ELSE IF tc THEN FALSE
                ELSE processingModelTurnRef
          /\ isPlaying' = IF stop THEN FALSE ELSE IF decode THEN TRUE ELSE isPlaying
          /\ activeSourcesRef' = act2
          /\ mchunk' = LET ch1 == IF stop THEN StoppedChunks(mchunk) ELSE mchunk
                       IN IF ~a THEN ch1
                          ELSE IF decode
                          THEN [ch1 EXCEPT ![id] = [st |-> "decoding", intr |-> intr,
                                   tc |-> tc, kind |-> Tag(g), old |-> FALSE]]
                          ELSE [ch1 EXCEPT ![id] = NoMChunk]
          /\ trackEnabled' = IF open THEN TrackAfterMute(tr2, FALSE) ELSE tr2
          /\ isMuted' = IF open THEN MutedAfterMute(mu2, FALSE) ELSE mu2
    /\ replies' = RepliesAfter(tc)
    /\ UNCHANGED <<mConnectionState, mErrorMessage, inputAudioContextRef,
                   outputAudioContextRef, outputNodeRef, mStreamRef, sessionPromiseRef,
                   capturing, mPc, mws>>

(***************************************************************************)
(* onmessage after the decode: the source is created, started and added,   *)
(* then interrupted and turnComplete of the same message are handled.      *)
(***************************************************************************)
MDecodeDone(id) ==
    /\ mchunk[id].st = "decoding"
    /\ LET m == mchunk[id]
           act1 == activeSourcesRef \cup {id}
           ch1 == [mchunk EXCEPT ![id] = [m EXCEPT !.st = "active", !.intr = FALSE,
                                                   !.tc = FALSE, !.kind = "-"]]
           ch2 == IF m.intr
                  THEN [i \in ChunkIds |->
                          IF i \in act1 THEN MGone("stopped")
                          ELSE IF ch1[i].st = "decoding"
                          THEN [ch1[i] EXCEPT !.old = TRUE]
                          ELSE ch1[i]]
                  ELSE ch1
           act2 == IF m.intr THEN {} ELSE act1
           tr2 == IF m.intr THEN TrackAfterMute(trackEnabled, FALSE) ELSE trackEnabled
           mu2 == IF m.intr THEN MutedAfterMute(isMuted, FALSE) ELSE isMuted
           open == m.tc /\ act2 = {}
       IN /\ activeSourcesRef' = act2
          /\ mchunk' = ch2
          /\ processingModelTurnRef' = IF m.intr THEN FALSE ELSE processingModelTurnRef
          /\ isPlaying' = IF m.intr THEN FALSE ELSE isPlaying
          /\ trackEnabled' = IF open THEN TrackAfterMute(tr2, FALSE) ELSE tr2
          /\ isMuted' = IF open THEN MutedAfterMute(mu2, FALSE) ELSE mu2
          /\ mLast' = [sur |-> {m.kind}, dis |-> {}, cb |-> FALSE,
                       mic |-> IF ~mStreamRef \/ trackEnabled THEN "-"
                               ELSE IF m.intr THEN "interrupted"
                               ELSE IF open THEN "turnComplete" ELSE "-",
                       fin |-> IF m.intr THEN "interrupted" ELSE "-",
                       frame |-> FALSE]
    /\ UNCHANGED <<mConnectionState, mErrorMessage, inputAudioContextRef,
                   outputAudioContextRef, outputNodeRef, mStreamRef, sessionPromiseRef,
                   capturing, ignoringNextTurnRef, mPc, mws, replies>>

\* the decode threw: the async handler ends there
MDecodeFail(id) ==
    /\ mchunk[id].st = "decoding"
    /\ mchunk' = [mchunk EXCEPT ![id] = NoMChunk]
    /\ mLast' = [Quiet EXCEPT !.fin = IF mchunk[id].intr THEN "rejected" ELSE "-"]
    /\ UNCHANGED <<mConnectionState, mErrorMessage, isMuted, isPlaying,
                   inputAudioContextRef, outputAudioContextRef, outputNodeRef,
                   mStreamRef, trackEnabled, sessionPromiseRef, capturing,
                   activeSourcesRef, processingModelTurnRef, ignoringNextTurnRef, mPc,
                   mws, replies>>

MSourceEndedDrainOnly(id) ==
    /\ mchunk[id].st \in {"active", "stopped"}
    /\ LET act1 == activeSourcesRef \ {id}
           open == act1 = {}
       IN /\ activeSourcesRef' = act1
          /\ isPlaying' = IF act1 = {} THEN FALSE ELSE isPlaying
          /\ trackEnabled' = IF open THEN TrackAfterMute(trackEnabled, FALSE)
                             ELSE trackEnabled
          /\ isMuted' = IF open THEN MutedAfterMute(isMuted, FALSE) ELSE isMuted
          /\ mLast' = [Quiet EXCEPT !.mic = IF open /\ mStreamRef /\ ~trackEnabled
                                            THEN "ended" ELSE "-"]
    /\ mchunk' = [mchunk EXCEPT ![id] = NoMChunk]
    /\ UNCHANGED <<mConnectionState, mErrorMessage, inputAudioContextRef,
                   outputAudioContextRef, outputNodeRef, mStreamRef, sessionPromiseRef,
                   capturing, processingModelTurnRef, ignoringNextTurnRef, mPc, mws,
                   replies>>

\* the 'ended' listener of a source (played to its end, or stopped)
MSourceEnded(id) ==
    /\ mchunk[id].st \in {"active", "stopped"}
    /\ LET act1 == activeSourcesRef \ {id}
           open == act1 = {} /\ ~processingModelTurnRef
       IN /\ activeSourcesRef' = act1
          /\ isPlaying' = IF act1 = {} THEN FALSE ELSE isPlaying
          /\ trackEnabled' = IF open THEN TrackAfterMute(trackEnabled, FALSE)
                             ELSE trackEnabled
          /\ isMuted' = IF open THEN MutedAfterMute(isMuted, FALSE) ELSE isMuted
          /\ mLast' = [Quiet EXCEPT !.mic =
                          IF ~mStreamRef \/ trackEnabled \/ act1 # {} THEN "-"
                          ELSE IF open THEN "ended" ELSE "held"]
    /\ mchunk' = [mchunk EXCEPT ![id] = NoMChunk]
    /\ UNCHANGED <<mConnectionState, mErrorMessage, inputAudioContextRef,
                   outputAudioContextRef, outputNodeRef, mStreamRef, sessionPromiseRef,
                   capturing, processingModelTurnRef, ignoringNextTurnRef, mPc, mws,
                   replies>>

\* what cleanup() leaves: no resource held, no source, every flag reset
Released ==
    /\ activeSourcesRef = {} /\ ~isPlaying
    /\ ~inputAudioContextRef /\ ~outputAudioContextRef /\ ~capturing
    /\ ~mStreamRef /\ ~sessionPromiseRef
    /\ mConnectionState = "DISCONNECTED"
    /\ ~isMuted /\ ~processingModelTurnRef /\ ~ignoringNextTurnRef

\* cleanup() without "sessionPromiseRef.current = null"
cleanupKeepsSession ==
    /\ mchunk' = [i \in ChunkIds |->
                    IF i \in activeSourcesRef THEN MGone("stopped") ELSE mchunk[i]]
    /\ activeSourcesRef' = {}
    /\ isPlaying' = FALSE
    /\ inputAudioContextRef' = FALSE
    /\ outputAudioContextRef' = FALSE
    /\ capturing' = FALSE
    /\ mStreamRef' = FALSE
    /\ trackEnabled' = TRUE
    /\ mws' = IF sessionPromiseRef /\ mws \in {"connecting", "open"}
              THEN "closing" ELSE mws
    /\ replies' = IF sessionPromiseRef THEN <<>> ELSE replies
    /\ mConnectionState' = "DISCONNECTED"
    /\ isMuted' = FALSE
    /\ processingModelTurnRef' = FALSE
    /\ ignoringNextTurnRef' = FALSE
    /\ mLast' = [Quiet EXCEPT !.fin = IF Released THEN "again" ELSE "-"]
    /\ UNCHANGED <<outputNodeRef, sessionPromiseRef>>

\* cleanup(): every handler that calls it ends with these values. The track of a
\* dropped stream no longer exists; trackEnabled is then TRUE by convention.
cleanup ==
    /\ mchunk' = [i \in ChunkIds |->
                    IF i \in activeSourcesRef THEN MGone("stopped") ELSE mchunk[i]]
    /\ activeSourcesRef' = {}
    /\ isPlaying' = FALSE
    /\ inputAudioContextRef' = FALSE
    /\ outputAudioContextRef' = FALSE
    /\ capturing' = FALSE
    /\ mStreamRef' = FALSE
    /\ trackEnabled' = TRUE
    /\ sessionPromiseRef' = FALSE
    /\ mws' = IF sessionPromiseRef /\ mws \in {"connecting", "open"}
              THEN "closing" ELSE mws
    /\ replies' = IF sessionPromiseRef THEN <<>> ELSE replies
    /\ mConnectionState' = "DISCONNECTED"
    /\ isMuted' = FALSE
    /\ processingModelTurnRef' = FALSE
    /\ ignoringNextTurnRef' = FALSE
    /\ mLast' = [Quiet EXCEPT !.fin = IF Released THEN "again" ELSE "-"]
    /\ UNCHANGED outputNodeRef

MDisconnect ==
    /\ mConnectionState # "DISCONNECTED"
    /\ cleanup
    /\ UNCHANGED <<mErrorMessage, mPc>>

\* connect() up to the getUserMedia await
MConnectStart ==
    /\ mConnectionState \in {"DISCONNECTED", "ERROR"}
    /\ mPc = "idle"
    /\ mws = "none"
    /\ mConnectionState' = "CONNECTING"
    /\ mErrorMessage' = "null"
    /\ inputAudioContextRef' = TRUE
    /\ outputAudioContextRef' = TRUE
    /\ outputNodeRef' = TRUE
    /\ mPc' = "mic"
    /\ mLast' = Quiet
    /\ UNCHANGED <<isMuted, isPlaying, mStreamRef, trackEnabled, sessionPromiseRef,
                   capturing, activeSourcesRef, processingModelTurnRef,
                   ignoringNextTurnRef, mws, replies, mchunk>>

\* connect() after the microphone was granted: stream kept, setMediaMute(false),
\* the session requested
MMicOk ==
    /\ mPc = "mic"
    /\ mPc' = "idle"
    /\ mStreamRef' = TRUE
    /\ trackEnabled' = TRUE
    /\ isMuted' = FALSE
    /\ sessionPromiseRef' = TRUE
    /\ mws' = "connecting"
    /\ replies' = <<>>
    /\ mLast' = [Quiet EXCEPT !.fin = IF mConnectionState = "DISCONNECTED"
                                      THEN "resumed" ELSE "-"]
    /\ UNCHANGED <<mConnectionState, mErrorMessage, isPlaying, inputAudioContextRef,
                   outputAudioContextRef, outputNodeRef, capturing, activeSourcesRef,
                   processingModelTurnRef, ignoringNextTurnRef, mchunk>>

\* connect() when the microphone was refused: the catch block
MMicFail ==
    /\ mPc = "mic"
    /\ mPc' = "idle"
    /\ mErrorMessage' = "set"
    /\ cleanup

MOnOpen ==
    /\ mws = "connecting"
    /\ mws' = "open"
    /\ mConnectionState' = "CONNECTED"
    /\ capturing' = (inputAudioContextRef /\ mStreamRef)
    /\ mLast' = Quiet
    /\ UNCHANGED <<mErrorMessage, isMuted, isPlaying, inputAudioContextRef,
                   outputAudioContextRef, outputNodeRef, mStreamRef, trackEnabled,
                   sessionPromiseRef, activeSourcesRef, processingModelTurnRef,
                   ignoringNextTurnRef, mPc, replies, mchunk>>

MOnClose ==
    /\ mws # "none"
    /\ mws' = "none"
    /\ replies' = <<>>
    /\ mConnectionState' = "DISCONNECTED"
    /\ mLast' = [Quiet EXCEPT !.fin = IF mws = "open" THEN "closed" ELSE "-"]
    /\ UNCHANGED <<mErrorMessage, isMuted, isPlaying, inputAudioContextRef,
                   outputAudioContextRef, outputNodeRef, mStreamRef, trackEnabled,
                   sessionPromiseRef, capturing, activeSourcesRef,
                   processingModelTurnRef, ignoringNextTurnRef, mPc, mchunk>>

MOnError ==
    /\ mws \in {"connecting", "open"}
    /\ mErrorMessage' = "set"
    /\ cleanup
    /\ UNCHANGED mPc

\* onaudioprocess: the frame is sent whatever the state of the track; the
\* session hears the user only through an enabled track and may start a reply
MCaptureFrame(speech) ==
    /\ capturing
    /\ mws = "open"
    /\ replies' = IF speech /\ trackEnabled /\ Len(replies) < MaxReplies
                  THEN Append(replies, "normal") ELSE replies
    /\ mLast' = [Quiet EXCEPT !.frame = TRUE]
    /\ UNCHANGED <<mConnectionState, mErrorMessage, isMuted, isPlaying,
                   inputAudioContextRef, outputAudioContextRef, outputNodeRef,
                   mStreamRef, trackEnabled, sessionPromiseRef, capturing,
                   activeSourcesRef, processingModelTurnRef, ignoringNextTurnRef, mPc,
                   mws, mchunk>>

\* the session's answer to a text it was sent
Sent(kind) ==
    IF mws = "open" /\ Len(replies) < MaxReplies THEN Append(replies, kind) ELSE replies

sendTextMessage ==
    /\ sessionPromiseRef
    /\ replies' = Sent("normal")
    /\ mLast' = Quiet
    /\ UNCHANGED <<mConnectionState, mErrorMessage, isMuted, isPlaying,
                   inputAudioContextRef, outputAudioContextRef, outputNodeRef,
                   mStreamRef, trackEnabled, sessionPromiseRef, capturing,
                   activeSourcesRef, processingModelTurnRef, ignoringNextTurnRef, mPc,
                   mws, mchunk>>

\* sendControlMessage(text) sending the frame without setting the flag
sendControlMessageNoFlag ==
    /\ replies' = IF sessionPromiseRef THEN Sent("ack") ELSE replies
    /\ mLast' = Quiet
    /\ UNCHANGED <<mConnectionState, mErrorMessage, isMuted, isPlaying,
                   inputAudioContextRef, outputAudioContextRef, outputNodeRef,
                   mStreamRef, trackEnabled, sessionPromiseRef, capturing,
                   activeSourcesRef, processingModelTurnRef, ignoringNextTurnRef, mPc,
                   mws, mchunk>>

\* sendControlMessage(text): with a session the flag is set, then the frame is
\* handed to the session; without one it does nothing
sendControlMessage ==
    /\ ignoringNextTurnRef' = IF sessionPromiseRef THEN TRUE ELSE ignoringNextTurnRef
    /\ replies' = IF sessionPromiseRef THEN Sent("ack") ELSE replies
    /\ mLast' = Quiet
    /\ UNCHANGED <<mConnectionState, mErrorMessage, isMuted, isPlaying,
                   inputAudioContextRef, outputAudioContextRef, outputNodeRef,
                   mStreamRef, trackEnabled, sessionPromiseRef, capturing,
                   activeSourcesRef, processingModelTurnRef, mPc, mws, mchunk>>

\* toggleMute() whose interrupt branch opens the microphone without
\* stopAudioPlayback()
toggleMuteNoStop ==
    /\ mConnectionState = "CONNECTED"
    /\ LET intr == activeSourcesRef # {} \/ isPlaying
       IN /\ activeSourcesRef' = activeSourcesRef
          /\ mchunk' = mchunk
          /\ processingModelTurnRef' = processingModelTurnRef
          /\ isPlaying' = FALSE
          /\ trackEnabled' = TrackAfterMute(trackEnabled, ~intr /\ trackEnabled)
          /\ isMuted' = MutedAfterMute(isMuted, ~intr /\ trackEnabled)
    /\ mLast' = [Quiet EXCEPT !.mic = IF mStreamRef /\ ~trackEnabled
                                      THEN "toggle" ELSE "-"]
    /\ UNCHANGED <<mConnectionState, mErrorMessage, inputAudioContextRef,
                   outputAudioContextRef, outputNodeRef, mStreamRef, sessionPromiseRef,
                   capturing, ignoringNextTurnRef, mPc, mws, replies>>

toggleMute ==
    /\ mConnectionState = "CONNECTED"
    /\ LET intr == activeSourcesRef # {} \/ isPlaying
       IN /\ activeSourcesRef' = IF intr THEN {} ELSE activeSourcesRef
          /\ mchunk' = IF intr THEN StoppedChunks(mchunk) ELSE mchunk
          /\ processingModelTurnRef' = IF intr THEN FALSE ELSE processingModelTurnRef
          /\ isPlaying' = FALSE
          /\ trackEnabled' = TrackAfterMute(trackEnabled, ~intr /\ trackEnabled)
          /\ isMuted' = MutedAfterMute(isMuted, ~intr /\ trackEnabled)
    /\ mLast' = [Quiet EXCEPT !.mic =
                    IF mStreamRef /\ ~trackEnabled THEN "toggle"
                    ELSE IF mStreamRef /\ activeSourcesRef = {} /\ ~isPlaying
                    THEN "manual" ELSE "-"]
    /\ UNCHANGED <<mConnectionState, mErrorMessage, inputAudioContextRef,
                   outputAudioContextRef, outputNodeRef, mStreamRef, sessionPromiseRef,
                   capturing, ignoringNextTurnRef, mPc, mws, replies>>

MNext ==
    \/ /\ MConnectStart
       /\ UNCHANGED <<qvars, vvars, svars>>
    \/ /\ MMicOk
       /\ UNCHANGED <<qvars, vvars, svars>>
    \/ /\ MMicFail
       /\ UNCHANGED <<qvars, vvars, svars>>
    \/ /\ MOnOpen
       /\ UNCHANGED <<qvars, vvars, svars>>
    \/ /\ \E tc, ot, it, a, intr, g \in BOOLEAN : MOnMessage(tc, ot, it, a, intr, g)
       /\ UNCHANGED <<qvars, vvars, svars>>
    \/ /\ \E id \in ChunkIds : MDecodeDone(id)
       /\ UNCHANGED <<qvars, vvars, svars>>
    \/ /\ \E id \in ChunkIds : MDecodeFail(id)
       /\ UNCHANGED <<qvars, vvars, svars>>
    \/ /\ \E id \in ChunkIds : MSourceEnded(id)
       /\ UNCHANGED <<qvars, vvars, svars>>
    \/ /\ MOnClose
       /\ UNCHANGED <<qvars, vvars, svars>>
    \/ /\ MOnError
       /\ UNCHANGED <<qvars, vvars, svars>>
    \/ /\ MDisconnect
       /\ UNCHANGED <<qvars, vvars, svars>>
    \/ /\ \E speech \in BOOLEAN : MCaptureFrame(speech)
       /\ UNCHANGED <<qvars, vvars, svars>>
    \/ /\ sendTextMessage
       /\ UNCHANGED <<qvars, vvars, svars>>
    \/ /\ sendControlMessage
       /\ UNCHANGED <<qvars, vvars, svars>>
    \/ /\ toggleMute
       /\ UNCHANGED <<qvars, vvars, svars>>

SpecM == Init /\ [][MNext]_vars

\* The output device delivers the ended event of every source, and every
\* decode settles.
SpecMFair ==
    /\ SpecM
    /\ WF_vars((\E id \in ChunkIds : MSourceEnded(id)) /\ UNCHANGED <<qvars, vvars, svars>>)
    /\ WF_vars((\E id \in ChunkIds : MDecodeDone(id) \/ MDecodeFail(id))
                    /\ UNCHANGED <<qvars, vvars, svars>>)

(***************************************************************************)
(* The volume estimate of the capture callbacks. Math.sqrt and the         *)
(* products are taken in fixed point, rounded down to a multiple of        *)
(* 1 / VolScale.                                                           *)
(***************************************************************************)
Samples == (0 - SampleScale)..SampleScale
Frames == [1..FrameLen -> Samples]

RECURSIVE SumSqTo(_, _)
\* "for(i...) sum += inputData[i] * inputData[i]", in units of 1 / SampleScale^2
SumSqTo(f, n) == IF n = 0 THEN 0 ELSE SumSqTo(f, n - 1) + f[n] * f[n]

\* floor of the square root
ISqrt(n) == CHOOSE r \in 0..(Gain * VolScale) : r * r <= n /\ (r + 1) * (r + 1) > n

Least(a, b) == IF a < b THEN a ELSE b

\* rms * 5 in units of 1 / VolScale:
\*   Gain * VolScale * sqrt(sum / (length * SampleScale^2))
ScaledRms(f) ==
    ISqrt((Gain * Gain * VolScale * VolScale * SumSqTo(f, FrameLen))
              \div (FrameLen * SampleScale * SampleScale))

VolumeNoClamp(f) == ScaledRms(f)

\* Math.min(rms * 5, 1)
Volume(f) == Least(ScaledRms(f), VolScale)

(***************************************************************************)
(* The connection life cycle and the capture callback of each hook, with   *)
(* the volume they leave: disconnect() and cleanup() end with              *)
(* setVolume(0); the capture callback of the queue-based hook publishes    *)
(* the estimate of every frame, that of the mute-gated hook only while the *)
(* track is enabled.                                                       *)
(***************************************************************************)
VNext ==
    \/ /\ Disconnect
       /\ qVolume' = 0
       /\ UNCHANGED <<mvars, mVolume, svars>>
    \/ /\ OnClose
       /\ qVolume' = 0
       /\ UNCHANGED <<mvars, mVolume, svars>>
    \/ /\ OnError
       /\ qVolume' = 0
       /\ UNCHANGED <<mvars, mVolume, svars>>
    \/ /\ ConnectStart
       /\ qVolume' = 0
       /\ UNCHANGED <<mvars, mVolume, svars>>
    \/ /\ ConnectFail
       /\ qVolume' = 0
       /\ UNCHANGED <<mvars, mVolume, svars>>
    \/ /\ ConnectMicOk
       /\ UNCHANGED <<mvars, vvars, svars>>
    \/ /\ OnOpen
       /\ UNCHANGED <<mvars, vvars, svars>>
    \/ /\ ConnectSessionOk
       /\ UNCHANGED <<mvars, vvars, svars>>
    \/ /\ CaptureFrame
       /\ \E f \in Frames : qVolume' = Volume(f)
       /\ UNCHANGED <<mvars, mVolume, svars>>
    \/ /\ MDisconnect
       /\ mVolume' = 0
       /\ UNCHANGED <<qvars, qVolume, svars>>
    \/ /\ MMicFail
       /\ mVolume' = 0
       /\ UNCHANGED <<qvars, qVolume, svars>>
    \/ /\ MOnError
       /\ mVolume' = 0
       /\ UNCHANGED <<qvars, qVolume, svars>>
    \/ /\ MConnectStart
       /\ UNCHANGED <<qvars, vvars, svars>>
    \/ /\ MMicOk
       /\ UNCHANGED <<qvars, vvars, svars>>
    \/ /\ MOnOpen
       /\ UNCHANGED <<qvars, vvars, svars>>
    \/ /\ MOnClose
       /\ UNCHANGED <<qvars, vvars, svars>>
    \/ /\ toggleMute
       /\ UNCHANGED <<qvars, vvars, svars>>
    \/ /\ \E speech \in BOOLEAN : MCaptureFrame(speech)
       /\ \E f \in Frames :
             mVolume' = IF mStreamRef /\ trackEnabled THEN Volume(f) ELSE mVolume
       /\ UNCHANGED <<qvars, qVolume, svars>>

SpecV == Init /\ [][VNext]_vars

(***************************************************************************)
(* The speaking pace of the queue-based hook. A pace instruction is a text *)
(* frame handed to sendRealtimeInput by changeSpeed() or by the capture    *)
(* callback.                                                               *)
(***************************************************************************)
SpeedModes == {"slow", "normal", "fast"}

getSystemPromptForSpeed(mode) ==
    CASE mode = "v-slow" -> "System: Speak extremely slowly and clearly."
      [] mode = "slow" -> "System: Speak slowly."
      [] mode = "fast" -> "System: Speak fast."
      [] mode = "v-fast" -> "System: Speak very fast."
      [] OTHER -> "System: Speak at a normal conversational pace."

\* "rms > 0.01" for the frame f, in exact arithmetic:
\*   sum / (length * SampleScale^2) > 0.01^2
Loud(f) == 10000 * SumSqTo(f, FrameLen) > FrameLen * SampleScale * SampleScale

\* the values of "rms > 0.01" over the frames
Loudness == {Loud(f) : f \in Frames}

\* changeSpeed without its test of isPlayingRef
changeSpeedNoGate(mode) ==
    /\ currentSpeedModeRef' = mode
    /\ IF sessionRef
       THEN /\ sLast' = getSystemPromptForSpeed(mode)
            /\ pendingSpeedUpdateRef' = FALSE
       ELSE /\ sLast' = "marked"
            /\ pendingSpeedUpdateRef' = TRUE
    /\ qLast' = "-"
    /\ UNCHANGED <<qConnectionState, turnState, qErrorMessage, audioContextsRef,
                   qStreamRef, qProcessorRef, handlerSet, sessionRef, audioQueueRef,
                   isPlayingRef, currentSourceRef, qNextStartTimeRef, isInterruptedRef,
                   connPc, ws, qNow, chunk, lastStart, prevEnd, tcSeen>>
    /\ UNCHANGED <<mvars, vvars>>

changeSpeed(mode) ==
    /\ currentSpeedModeRef' = mode
    /\ IF ~isPlayingRef /\ sessionRef
       THEN /\ sLast' = getSystemPromptForSpeed(mode)
            /\ pendingSpeedUpdateRef' = FALSE
       ELSE /\ sLast' = "marked"
            /\ pendingSpeedUpdateRef' = TRUE
    /\ qLast' = "-"
    /\ UNCHANGED <<qConnectionState, turnState, qErrorMessage, audioContextsRef,
                   qStreamRef, qProcessorRef, handlerSet, sessionRef, audioQueueRef,
                   isPlayingRef, currentSourceRef, qNextStartTimeRef, isInterruptedRef,
                   connPc, ws, qNow, chunk, lastStart, prevEnd, tcSeen>>
    /\ UNCHANGED <<mvars, vvars>>

\* onaudioprocess that sends the pending instruction and leaves it pending
onaudioprocessKeepsPending(loud) ==
    /\ CaptureFrame
    /\ IF ~isPlayingRef /\ pendingSpeedUpdateRef /\ loud
       THEN /\ sLast' = getSystemPromptForSpeed(currentSpeedModeRef)
            /\ UNCHANGED pendingSpeedUpdateRef
       ELSE /\ sLast' = "-"
            /\ UNCHANGED pendingSpeedUpdateRef
    /\ UNCHANGED <<currentSpeedModeRef, mvars, vvars>>

\* onaudioprocess on a frame, loud being its "rms > 0.01": the gate and the
\* media frame are those of CaptureFrame, before which the pending pace
\* instruction is sent
onaudioprocess(loud) ==
    /\ CaptureFrame
    /\ IF ~isPlayingRef /\ pendingSpeedUpdateRef /\ loud
       THEN /\ sLast' = getSystemPromptForSpeed(currentSpeedModeRef)
            /\ pendingSpeedUpdateRef' = FALSE
       ELSE /\ sLast' = "-"
            /\ UNCHANGED pendingSpeedUpdateRef
    /\ UNCHANGED <<currentSpeedModeRef, mvars, vvars>>

\* what a step that is neither changeSpeed() nor the capture callback leaves
NoSpeedStep ==
    /\ sLast' = "-"
    /\ UNCHANGED <<mvars, vvars, currentSpeedModeRef, pendingSpeedUpdateRef>>

SNext ==
    \/ /\ \E id \in ChunkIds, d \in Durations : DecodeDone(id, d)
       /\ NoSpeedStep
    \/ /\ \E id \in ChunkIds : DecodeFail(id)
       /\ NoSpeedStep
    \/ /\ \E id \in ChunkIds : SourceEnded(id)
       /\ NoSpeedStep
    \/ /\ Interrupt
       /\ NoSpeedStep
    \/ /\ \E a, it, tc, intr \in BOOLEAN : OnMessage(a, it, tc, intr)
       /\ NoSpeedStep
    \/ /\ Disconnect
       /\ NoSpeedStep
    \/ /\ ConnectStart
       /\ NoSpeedStep
    \/ /\ ConnectMicOk
       /\ NoSpeedStep
    \/ /\ ConnectFail
       /\ NoSpeedStep
    \/ /\ OnOpen
       /\ NoSpeedStep
    \/ /\ ConnectSessionOk
       /\ NoSpeedStep
    \/ /\ OnClose
       /\ NoSpeedStep
    \/ /\ OnError
       /\ NoSpeedStep
    \/ /\ Tick
       /\ NoSpeedStep
    \/ \E loud \in Loudness : onaudioprocess(loud)
    \/ \E mode \in SpeedModes : changeSpeed(mode)

SpecS == Init /\ [][SNext]_vars

(***************************************************************************)
(* Properties of the mute-gated hook.                                      *)
(***************************************************************************)
\* C2: the microphone track is disabled in every state in which
\* activeSourcesRef holds a started, not yet ended source
MicOffWhileSourcesActive ==
    (mStreamRef /\ activeSourcesRef # {}) => ~trackEnabled

\* C4: no source is started or added to activeSourcesRef for a chunk that was
\* received before a call of stopAudioPlayback()
NoStartAfterStop ==
    \A i \in ChunkIds : mchunk[i].old => mchunk[i].st # "active"

\* C11: on the paths of the ended listener and of turnComplete, the microphone
\* track turns from disabled to enabled only in a step that leaves
\* activeSourcesRef empty and processingModelTurnRef false; an emptied set of
\* sources alone does not enable it.
MicOpensOnDualCondition ==
    mLast.mic \in {"ended", "turnComplete"} =>
        activeSourcesRef = {} /\ ~processingModelTurnRef

\* the ended listener of the last source enabled the track
MicOpenedByEndedListener ==
    mLast.mic = "ended" /\ trackEnabled /\ activeSourcesRef = {}

\* C12: once the turnComplete of every reply has been received and every
\* started source has ended, with no chunk left to decode, the microphone track
\* is eventually enabled again (or the stream is dropped by a teardown).
NoChunkLeft == \A i \in ChunkIds : mchunk[i].st = "none"

MicReopensAfterReply ==
    (mLast.mic = "held" /\ replies = <<>> /\ NoChunkLeft)
        ~> (trackEnabled \/ ~mStreamRef)

\* C15: when the handler of a message with interrupted set returns, whatever
\* else the message carries and whether or not ignoringNextTurnRef is set,
\* activeSourcesRef is empty and the microphone track is enabled.
InterruptedAlwaysFlushes ==
    mLast.fin = "interrupted" =>
        /\ activeSourcesRef = {}
        /\ mStreamRef => trackEnabled

\* C16: while the microphone is muted (its track disabled by setMediaMute(true))
\* onaudioprocess transmits no media frame to the session.
NoFrameSentWhileMuted ==
    mLast.frame => trackEnabled

\* C17: from a session error or a failure inside connect() until the next
\* connect(), which clears the message, the hook rests in connectionState ERROR
\* with a non-null errorMessage.
ErrorStateIsTerminal ==
    mErrorMessage = "set" => mConnectionState = "ERROR"

\* C19: when an open session closes (onclose), the teardown has happened: the
\* stream is stopped and dropped, both contexts are closed, no source is active,
\* no capture frame is delivered any more, and a message is set.
CloseTearsDown ==
    mLast.fin = "closed" =>
        /\ ~mStreamRef /\ ~inputAudioContextRef /\ ~outputAudioContextRef
        /\ activeSourcesRef = {} /\ ~capturing
        /\ mErrorMessage = "set"

\* C20: after disconnect() was invoked while connect() was suspended, once the
\* pending steps of connect() have run no stream, audio context or session is
\* held, no capture pipeline runs, and connectionState is DISCONNECTED.
DisconnectDuringConnectReleasesAll ==
    mLast.fin = "resumed" =>
        /\ ~mStreamRef /\ ~inputAudioContextRef /\ ~outputAudioContextRef
        /\ ~sessionPromiseRef /\ ~capturing
        /\ mConnectionState = "DISCONNECTED"

\* what cleanup() closes, stops or resets
Cleaned == <<isMuted, isPlaying, inputAudioContextRef, outputAudioContextRef,
             outputNodeRef, mStreamRef, trackEnabled, sessionPromiseRef, capturing,
             activeSourcesRef, processingModelTurnRef, ignoringNextTurnRef,
             mConnectionState, mws, replies, mchunk>>

\* C22: cleanup() is idempotent: every call leaves no resource held, no active
\* source, the flags reset, unmuted and DISCONNECTED, and a call made in such a
\* state changes none of these and closes or stops nothing again.
CleanupIdempotent ==
    [][(MDisconnect \/ MMicFail \/ MOnError)
          => (Released' /\ (Released => UNCHANGED Cleaned))]_vars

CleanupCalledAgain == mLast.fin = "again" /\ Released

\* C26: an input transcription that arrives while ignoringNextTurnRef is set
\* clears the flag at that message and is surfaced: no input transcription is
\* discarded for the flag.
InputTranscriptionLiftsSuppression ==
    "user" \in (mLast.sur \cup mLast.dis) =>
        "user" \in mLast.sur /\ ~ignoringNextTurnRef

\* C27: the volume of each hook is in [0, 1] in every state, whatever frames of
\* samples in [-1, 1] the capture callback is given, and it is 0 while the hook
\* is torn down (no audio context).
VolumeInUnitInterval ==
    /\ qVolume \in 0..VolScale
    /\ mVolume \in 0..VolScale
    /\ ~audioContextsRef => qVolume = 0
    /\ ~inputAudioContextRef => mVolume = 0

\* one hook publishes a clamped estimate, the other one below the clamp
VolumeClampedAndNot ==
    /\ qLast \in {"sent", "held"} /\ qVolume = VolScale
    /\ mLast.frame /\ mVolume > 0 /\ mVolume < VolScale

\* C28: on the two interrupt paths (a message with interrupted, toggleMute()) the
\* microphone track is enabled only after every source was stopped and removed:
\* the step that opens the microphone leaves activeSourcesRef empty and no
\* source playing.
FlushBeforeMicOpens ==
    mLast.mic \in {"interrupted", "toggle"} =>
        /\ trackEnabled
        /\ activeSourcesRef = {}
        /\ \A i \in ChunkIds : mchunk[i].st # "active"

\* toggleMute() has stopped a source and opened the microphone
ToggleStoppedPlayback ==
    /\ mLast.mic = "toggle" /\ trackEnabled
    /\ \E i \in ChunkIds : mchunk[i].st = "stopped"

\* C29: sendControlMessage sets ignoringNextTurnRef no later than it hands the
\* frame to the session: whenever its frame reaches the session the flag is
\* set; called with no session it leaves the flag as it was and sends nothing.
ControlFlagSetBeforeFrame ==
    [][sendControlMessage =>
          IF sessionPromiseRef
          THEN ignoringNextTurnRef'
          ELSE UNCHANGED <<ignoringNextTurnRef, replies>>]_vars

\* the session owes the acknowledgment of an instruction and the flag is set
ControlFramePending ==
    /\ ignoringNextTurnRef
    /\ replies # <<>> /\ replies[Len(replies)] = "ack"

\* C30: onTranscriptionUpdate is invoked only with ignoringNextTurnRef unset,
\* the flag being the one left by the turnComplete branch of the same message.
TranscriptOnlyWhenNotSuppressed ==
    mLast.cb => ~ignoringNextTurnRef

\* a transcript of the acknowledgment reply was dispatched by the message that
\* completed the reply
TranscriptDispatchedOnTurnComplete ==
    mLast.cb /\ mLast.sur = {"ack"} /\ replies = <<>> /\ ~ignoringNextTurnRef

\* C33: a decode failure is absorbed: the interrupted field of the message whose
\* chunk failed to decode is still handled, so that the step at which the decode
\* fails leaves no active source, isPlaying and processingModelTurnRef false and
\* the microphone track enabled.
DecodeFailureAbsorbed ==
    [][\A id \in ChunkIds :
          (MDecodeFail(id) /\ mchunk[id].intr) =>
              /\ activeSourcesRef' = {}
              /\ ~isPlaying' /\ ~processingModelTurnRef'
              /\ mStreamRef' => trackEnabled']_vars

\* C38: a manual mute (toggleMute() with nothing playing and the track enabled)
\* is left as it is by a message that carries neither audio nor interrupted,
\* turnComplete included: the track stays disabled and isMuted true.
ManualMuteSurvivesMessages ==
    [][\A tc, ot, it, g \in BOOLEAN :
          (mLast.mic = "manual" /\ MOnMessage(tc, ot, it, FALSE, FALSE, g)) =>
              (~trackEnabled' /\ isMuted')]_vars

\* C39: with two control instructions sent before the first reply has completed
\* (two acknowledgments owed), both replies are suppressed: no event of the first
\* acknowledgment that comes before its turnComplete is surfaced, and when the
\* first acknowledgment completes the transcription branch still passes nothing
\* of the second to onTranscriptionUpdate.
BothAcksSuppressed ==
    [][\A tc, ot, it, a, intr, g \in BOOLEAN :
          (MOnMessage(tc, ot, it, a, intr, g) /\ replies = <<"ack", "ack">>) =>
              IF tc
              THEN Dispatched(ignoringNextTurnRef', {"ack"}) = {}
              ELSE mLast'.sur \cap {"ack"} = {}]_vars

\* C40: isPlaying is true in every state in which activeSourcesRef holds a
\* source, whatever the order of chunk arrivals, decode completions and ended
\* events.
PlayingWhileSourcesActive ==
    activeSourcesRef # {} => isPlaying

\* C6: no transcript callback is invoked and no source is started for an event
\* of the acknowledgment reply to a control instruction
AckNeverSurfaces ==
    mLast.sur \cap {"ack"} = {}

\* C7: new content in the reply to a control instruction is surfaced, and no
\* event of another reply or of the user's speech is discarded by the flag
GenuineNeverDiscarded ==
    mLast.dis \cap {"normal", "user", "ackContent"} = {}

(***************************************************************************)
(* Properties of the queue-based hook.                                     *)
(***************************************************************************)
Started == lastStart.id # 0

\* C1: whenever turnState is AI_SPEAKING the gate flag isPlayingRef is true, and
\* no capture frame is transmitted to the session in a state with AI_SPEAKING.
GateClosedWhileAiSpeaking ==
    /\ turnState = "AI_SPEAKING" => isPlayingRef
    /\ qLast = "sent" => turnState # "AI_SPEAKING"

\* a capture frame arrived while AI_SPEAKING and was not transmitted
FrameHeldWhileAiSpeaking ==
    turnState = "AI_SPEAKING" /\ isPlayingRef /\ qLast = "held"

\* C3: interrupt() leaves the queue empty, and no segment whose chunk was
\* received before the interrupt is appended to the queue or started afterwards.
InterruptDiscardsEarlierChunks ==
    /\ qLast \in {"intr", "intrq"} => audioQueueRef = <<>>
    /\ \A i \in ChunkIds : chunk[i].old => chunk[i].st \notin {"queued", "playing"}

\* C5: one interrupt() from AI_SPEAKING, whatever the queue holds and whatever is
\* left of the playing segment, yields USER_SPEAKING, an empty queue, no current
\* source and an open gate in that step.
BargeInOneStep ==
    qLast \in {"intr", "intrq"} =>
        /\ turnState = "USER_SPEAKING"
        /\ audioQueueRef = <<>>
        /\ currentSourceRef = 0
        /\ ~isPlayingRef

\* interrupt() was called while a segment played and another waited in the queue
BargeInWithQueue ==
    /\ qLast = "intrq"
    /\ turnState = "USER_SPEAKING"
    /\ \E i \in ChunkIds : chunk[i].st = "stopped"

\* C8 as stated: with no interrupt in between, each segment is scheduled to start
\* exactly where the segment before it ends, for every timing.
GaplessAlways ==
    Started /\ lastStart.pe >= 0 => lastStart.at = lastStart.pe

\* C8 amended: with no interrupt in between, a segment is scheduled to start
\* where the segment before it ends unless the output clock has passed that
\* instant when it is started; then it starts at the clock's time plus 50 ms.
GaplessUnlessLate ==
    Started /\ lastStart.pe >= 0 =>
        lastStart.at = IF lastStart.pe < lastStart.clk
                       THEN lastStart.clk + Slack
                       ELSE lastStart.pe

\* a segment started on the ended callback of the one before it, with no gap
ChainedNoGap ==
    /\ Started /\ lastStart.pe > 0
    /\ lastStart.clk = lastStart.pe
    /\ lastStart.at = lastStart.pe

\* C9: with no interrupt in between, a segment is scheduled no earlier than the
\* end of the segment before it; with the clock and nextStartTimeRef both 0 the
\* segment starts at 0.
NoOverlap ==
    Started =>
        /\ lastStart.pe >= 0 => lastStart.at >= lastStart.pe
        /\ lastStart.clk = 0 /\ lastStart.nst = 0 => lastStart.at = 0

\* the 200 ms / 300 ms case: the first segment played from 0 to 200 ms, the
\* second starts at 200 ms or later and ends at 500 ms or later
TwoSegments200And300 ==
    /\ Started /\ lastStart.pe = 4 /\ lastStart.d = 6
    /\ lastStart.at >= 4
    /\ lastStart.at + lastStart.d >= 10

\* C13: on the path of the ended callback, turnState changes from AI_SPEAKING to
\* USER_SPEAKING only when the queue is empty and the session has signalled
\* turnComplete; an empty queue alone does not cause the change.
TurnEndsOnDualCondition ==
    qLast = "drained" => (audioQueueRef = <<>> /\ tcSeen)

\* C14: a message with interrupted set, received while turnState is AI_SPEAKING,
\* flushes playback (queue empty, current source stopped) and leaves turnState
\* USER_SPEAKING, as interrupt() does.
RemoteInterruptFlushes ==
    qLast = "rintr" =>
        /\ turnState = "USER_SPEAKING"
        /\ audioQueueRef = <<>>
        /\ currentSourceRef = 0

\* C18: when onerror fires, an open session closes, or connect() throws, the
\* teardown has run and errorMessage holds a non-null message afterwards.
FailureLeavesMessage ==
    qLast = "fail" =>
        /\ ~audioContextsRef /\ ~qProcessorRef /\ ~sessionRef
        /\ qErrorMessage # "null"

\* the tracks of the stream in streamRef are live: connect() creates the stream
\* and the contexts in one stretch, disconnect() stops and closes them in one call
StreamLive == qStreamRef /\ audioContextsRef

\* C21: whatever the order of onerror, onclose, disconnect() and connect(), no
\* call of the teardown routine releases a resource that an earlier call has
\* released: the stream whose tracks it stops is one whose tracks are live.
ReleasedOncePerConnection ==
    [][(Disconnect \/ OnClose \/ OnError \/ ConnectStart \/ ConnectFail)
          => (qStreamRef => StreamLive)]_vars

\* C23: the playback cursor nextStartTimeRef never decreases, whatever chunks are
\* enqueued, segments started or ended, and interrupt() called.
CursorNeverDecreases ==
    [][qNextStartTimeRef' >= qNextStartTimeRef]_vars

\* C24: every source.start(t) of playNextInQueue is given a t at or after the
\* output clock's time at the call, however late the decode completed or the
\* ended callback ran.
StartNeverInThePast ==
    Started => lastStart.at >= lastStart.clk

\* a segment started when the cursor had fallen behind the clock
StartedBehindClock ==
    Started /\ lastStart.nst < lastStart.clk /\ lastStart.at >= lastStart.clk

\* C25: a chunk whose decode fails is dropped and nothing else changes: the
\* queue, isPlayingRef, turnState and nextStartTimeRef are as they were, and
\* every other chunk is where it was (being decoded, queued or played), so
\* playback goes on with the chunks received before and after it.
DecodeFailureDropsOnlyItsChunk ==
    [][\A id \in ChunkIds :
          DecodeFail(id) =>
              /\ UNCHANGED <<audioQueueRef, isPlayingRef, turnState,
                             qNextStartTimeRef, currentSourceRef>>
              /\ \A j \in ChunkIds \ {id} : chunk'[j] = chunk[j]]_vars

\* a decode failed while another chunk is played
DroppedWhilePlaying ==
    /\ qLast = "dropped"
    /\ \E j \in ChunkIds : chunk[j].st = "playing"
    /\ isPlayingRef /\ turnState = "AI_SPEAKING"

\* C31: a segment started with nextStartTimeRef behind the output clock starts
\* at exactly the clock's time plus the slack, any other at nextStartTimeRef as
\* it was; nextStartTimeRef is then the start time plus the segment's duration.
SlackRule ==
    Started =>
        /\ lastStart.at = IF lastStart.nst < lastStart.clk
                          THEN lastStart.clk + Slack ELSE lastStart.nst
        /\ qNextStartTimeRef = lastStart.at + lastStart.d

\* a segment started one slack after the clock, the cursor having been behind
SlackAppliedExactly ==
    /\ Started /\ lastStart.nst < lastStart.clk
    /\ lastStart.at = lastStart.clk + Slack
    /\ qNextStartTimeRef = lastStart.clk + Slack + lastStart.d

\* the gate is closed by a source that is playing
GateHeldByPlayingSource ==
    isPlayingRef => currentSourceRef # 0 /\ chunk[currentSourceRef].st = "playing"

DisconnectResetsPlayback ==
    [][Disconnect =>
          /\ ~isPlayingRef'
          /\ audioQueueRef' = <<>>
          /\ ~isInterruptedRef'
          /\ qNextStartTimeRef' = 0]_vars

\* C35: at most one source is started and neither ended nor stopped, and the
\* ended callback of a source that is not the current source starts no segment
\* and leaves turnState (and the gate, the queue and the cursor) as they were.
OneSourceAtATime ==
    [][/\ Cardinality({i \in ChunkIds : chunk'[i].st = "playing"}) <= 1
       /\ \A id \in ChunkIds :
             (SourceEnded(id) /\ currentSourceRef # id) =>
                 /\ \A i \in ChunkIds : chunk'[i].st = "playing" => chunk[i].st = "playing"
                 /\ turnState' = turnState
                 /\ isPlayingRef' = isPlayingRef
                 /\ audioQueueRef' = audioQueueRef
                 /\ qNextStartTimeRef' = qNextStartTimeRef]_vars

\* the ended callback of a source stopped by interrupt() has run while the
\* source started after the interrupt window is playing
StaleEndedIgnored ==
    /\ qLast = "stale"
    /\ currentSourceRef # 0 /\ chunk[currentSourceRef].st = "playing"
    /\ isPlayingRef /\ turnState = "AI_SPEAKING"

\* C36: no pace instruction is sent in a state where isPlayingRef is true, and a
\* changeSpeed() made while isPlayingRef is true records the mode, marks the
\* update pending and sends nothing.
NoSpeedFrameWhilePlaying ==
    [][/\ sLast' \notin {"-", "marked"} => (~isPlayingRef /\ ~isPlayingRef')
       /\ \A mode \in SpeedModes :
             (changeSpeed(mode) /\ isPlayingRef) =>
                 /\ currentSpeedModeRef' = mode
                 /\ pendingSpeedUpdateRef'
                 /\ sLast' = "marked"]_vars

\* changeSpeed("fast") was called with a session open and a segment playing
SpeedMarkedDuringPlayback ==
    /\ sLast = "marked" /\ isPlayingRef /\ sessionRef
    /\ currentSpeedModeRef = "fast" /\ pendingSpeedUpdateRef
    /\ currentSourceRef # 0 /\ chunk[currentSourceRef].st = "playing"

\* C37: a pending pace update is sent exactly once and carries the latest mode:
\* the capture callback sends it with the first frame that has rms > 0.01 while
\* isPlayingRef is false, and with no other frame; the update stops being
\* pending only in a step that sends the instruction of the mode then current;
\* a step that sends leaves nothing pending; the mode changes only in a step
\* that leaves the update pending or sends the new mode.
PendingSpeedSentOnce ==
    [][/\ \A loud \in Loudness :
             onaudioprocess(loud) =>
                 IF ~isPlayingRef /\ pendingSpeedUpdateRef /\ loud
                 THEN /\ sLast' = getSystemPromptForSpeed(currentSpeedModeRef)
                      /\ ~pendingSpeedUpdateRef'
                 ELSE /\ sLast' = "-"
                      /\ pendingSpeedUpdateRef' = pendingSpeedUpdateRef
       /\ (pendingSpeedUpdateRef /\ ~pendingSpeedUpdateRef') =>
             sLast' = getSystemPromptForSpeed(currentSpeedModeRef')
       /\ sLast' \notin {"-", "marked"} =>
             /\ ~pendingSpeedUpdateRef'
             /\ sLast' = getSystemPromptForSpeed(currentSpeedModeRef')
       /\ currentSpeedModeRef' # currentSpeedModeRef =>
             \/ pendingSpeedUpdateRef'
             \/ sLast' = getSystemPromptForSpeed(currentSpeedModeRef')]_vars

\* the capture callback has sent the pending update, of a mode other than the
\* initial one, together with the frame
PendingSpeedSentWithFrame ==
    /\ qLast = "sent" /\ sLast = getSystemPromptForSpeed("slow")
    /\ currentSpeedModeRef = "slow" /\ ~pendingSpeedUpdateRef
    /\ ~isPlayingRef /\ sessionRef

\* C10: the segments of one reply are started in the order in which their chunks
\* were received: no chunk is started after one received later (with no
\* turnComplete received all chunks are of one reply; chunks an interrupt found
\* undecoded are left to C3).
StartedInOrderReceived ==
    ~tcSeen => \A i \in ChunkIds :
                  ~(chunk[i].st = "playing" /\ chunk[i].late /\ ~chunk[i].old)
====
